---- MODULE Spec2Model ----
(***************************************************************************)
(* Gallery-App: the Express API (src/unnamed/part_000) over the Metadata   *)
(* Store (MongoDB through mongoose) and the Media Store (Cloudinary        *)
(* through multer-storage-cloudinary), and the React Gallery Client        *)
(* (src/frontend/src/components/GalleryApp.jsx).                           *)
(*                                                                         *)
(* Strings the code takes apart (file names, MIME types, URLs) are         *)
(* sequences of one-character or separator-free tokens, so that extname,   *)
(* the allowedTypes regular expression and the split('/') / split('.')     *)
(* of the delete handler are computed as the code computes them.           *)
(***************************************************************************)
EXTENDS Integers, Sequences, FiniteSets, TLC

VARIABLES
    db,             \* Metadata Store: the set of Image documents
    cloud,          \* Media Store: the public_ids of the stored objects
    clock,          \* Date.now(): source of upload dates, object names, ObjectIds
    inflight,       \* DELETE requests between findById and findByIdAndDelete
    last,           \* the request handled last and the response it got
    images,         \* client: useState images
    selectedImage,  \* client: useState selectedImage
    isLoading,      \* client: useState isLoading
    isUploading,    \* client: useState isUploading
    error,          \* client: useState error
    net,            \* client: its requests in flight, with their closures
    requests,       \* client: number of requests the user has triggered
    mounted,        \* client: the mount effect has run
    uploadRefreshed, \* client: handleFileUpload called fetchImages, and a
                    \* fetch has been outstanding ever since
    anyFailed       \* client: a request that has completed did not succeed

apiVars == <<db, cloud, clock, inflight, last>>
clientVars == <<images, selectedImage, isLoading, isUploading, error, net,
                requests, mounted, uploadRefreshed, anyFailed>>
vars == <<db, cloud, clock, inflight, last, images, selectedImage, isLoading,
          isUploading, error, net, requests, mounted, uploadRefreshed,
          anyFailed>>

---------------------------------------------------------------------------
\* Bounds of the model.

\* Longest upload batch explored.
MaxBatch == 2
\* Last clock value: every file of an upload request takes one tick.
MaxClock == 4
\* DELETE requests that may be between their two Metadata Store calls.
MaxInflight == 1

---------------------------------------------------------------------------
\* Strings.

\* The value of a field that is not there (JavaScript undefined).
Undefined == <<"<undefined>">>

\* String.prototype.includes, which is what an unanchored RegExp.test of a
\* plain word amounts to.
Contains(s, p) ==
    \E i \in 1..(Len(s) - Len(p) + 1) : SubSeq(s, i, i + Len(p) - 1) = p

LowerChar(c) ==
    CASE c = "P" -> "p"
      [] c = "N" -> "n"
      [] c = "G" -> "g"
      [] c = "J" -> "j"
      [] OTHER -> c

ToLowerCase(s) == [i \in 1..Len(s) |-> LowerChar(s[i])]

\* Index of the last occurrence of token c in s, 0 when there is none.
LastIndexOf(s, c) ==
    LET hits == {i \in 1..Len(s) : s[i] = c}
    IN  IF hits = {} THEN 0 ELSE CHOOSE i \in hits : \A j \in hits : j <= i

\* Index of the first occurrence of token c in s, 0 when there is none.
IndexOf(s, c) ==
    LET hits == {i \in 1..Len(s) : s[i] = c}
    IN  IF hits = {} THEN 0 ELSE CHOOSE i \in hits : \A j \in hits : i <= j

\* path.extname of a name without directory part: from the last '.' to the
\* end; empty when there is no '.' or the only one is the first character.
ExtName(name) ==
    LET d == LastIndexOf(name, ".")
    IN  IF d <= 1 THEN <<>> ELSE SubSeq(name, d, Len(name))

\* s.split('/') then [length - 1]: what follows the last '/'.
LastSegment(s) == SubSeq(s, LastIndexOf(s, "/") + 1, Len(s))

\* s.split('.')[0]: what precedes the first '.'.
FirstPiece(s) ==
    LET d == IndexOf(s, ".")
    IN  IF d = 0 THEN s ELSE SubSeq(s, 1, d - 1)

---------------------------------------------------------------------------
\* The Media Store.

\* folder: "uploads" of the storage params.
Folder == <<"uploads", "/">>

\* public_id: Date.now() + '-' + random, one fresh name per file; Cloudinary
\* stores the object as <folder>/<public_id>.
ObjectName(t) == Folder \o <<ToString(t)>>

\* secure_url of the object stored under public_id pid.
UrlOf(pid) ==
    <<"https:", "/", "/", "cdn", "/", "upload", "/">> \o pid \o <<".", "jpg">>

\* cloudinary.uploader.destroy(publicId): removes the object of that exact
\* public_id; an unknown public_id is answered "not found" without an error.
\* ok = FALSE is the call failing (rejected promise), which removes nothing.
Destroy(objs, pid, ok) == IF ok THEN objs \ {pid} ELSE objs

---------------------------------------------------------------------------
\* The Metadata Store.

\* The ObjectId strings: mongoose casts these and no other string.
ObjectIds == {ToString(t) : t \in 1..(MaxClock + 1)}

\* An id string that is no ObjectId: findById rejects with a CastError.
MalformedId == "not-an-objectid"

\* An ObjectId that no document ever gets.
UnknownId == ToString(MaxClock + 1)

\* The :id values a request is sent with: the id of each document in the
\* store, an ObjectId of no document, and a string that is no ObjectId.
RequestIds(docs) == {r.id : r \in docs} \cup {UnknownId, MalformedId}

\* Image.findById(id): the documents with that _id (none or one).
FindById(docs, id) == {r \in docs : r.id = id}

\* Image.findByIdAndDelete(id).
FindByIdAndDelete(docs, id) == {r \in docs : r.id # id}

\* Documents that were in the store before this run of the server. The
\* schema makes every field optional, and the delete handler keeps a branch
\* for documents saved without public_id.
\*   "1": saved with its public_id; its object is in the Media Store.
\*   "2": saved without public_id, and no name can be derived from its path.
LegacyDocs ==
    { [id |-> "1", filename |-> ObjectName(1), path |-> UrlOf(ObjectName(1)),
       public_id |-> ObjectName(1), uploadDate |-> 1],
      [id |-> "2", filename |-> <<"2">>,
       path |-> <<"https:", "/", "/", "cdn", "/", "2", "/">>,
       public_id |-> Undefined, uploadDate |-> 2] }

LegacyObjects == {ObjectName(1)}

---------------------------------------------------------------------------
\* Upload: multer with the Cloudinary storage engine.

\* limits.fileSize
FileSizeLimit == 10 * 1024 * 1024

\* upload.array("images", 10)
MaxCount == 10

\* const allowedTypes = /jpeg|jpg|png|gif|webp/
AllowedTypes ==
    { <<"j", "p", "e", "g">>, <<"j", "p", "g">>, <<"p", "n", "g">>,
      <<"g", "i", "f">>, <<"w", "e", "b", "p">> }

\* allowedTypes.test(s)
AllowedTypesTest(s) == \E p \in AllowedTypes : Contains(s, p)

\* fileFilter: TRUE is cb(null, true), FALSE is cb(new Error(...)).
FileFilter(file) ==
    LET extname == AllowedTypesTest(ToLowerCase(ExtName(file.originalname)))
        mimetype == AllowedTypesTest(file.mimetype)
    IN  mimetype /\ extname

\* The files a request may carry, by a short name: an image at the size
\* limit with an upper-case extension, an animated PNG, a text file, and
\* an image one byte over the limit.
SampleNames == {"a", "c", "d", "e"}

SampleFile ==
    [k \in SampleNames |->
        CASE k = "a" ->
               [originalname |-> <<"a", ".", "P", "N", "G">>,
                mimetype |-> <<"i", "m", "a", "g", "e", "/", "p", "n", "g">>,
                size |-> FileSizeLimit]
          [] k = "c" ->
               [originalname |-> <<"c", ".", "a", "p", "n", "g">>,
                mimetype |-> <<"i", "m", "a", "g", "e", "/", "a", "p", "n", "g">>,
                size |-> 2048]
          [] k = "d" ->
               [originalname |-> <<"d", ".", "t", "x", "t">>,
                mimetype |-> <<"t", "e", "x", "t", "/", "p", "l", "a", "i", "n">>,
                size |-> 2048]
          [] OTHER ->
               [originalname |-> <<"e", ".", "j", "p", "g">>,
                mimetype |-> <<"i", "m", "a", "g", "e", "/", "j", "p", "e", "g">>,
                size |-> FileSizeLimit + 1]]

\* The fileFilter's verdict on each of them.
Accepted == [k \in SampleNames |-> FileFilter(SampleFile[k])]

\* Whether each of them is over limits.fileSize: busboy cuts a file off
\* once more than fileSize bytes of it have arrived.
TooLarge == [k \in SampleNames |-> SampleFile[k].size > FileSizeLimit]

\* What multer finds wrong with file i of the batch on its own, in the order
\* multer looks: the count of the field, the fileFilter, then the size while
\* the file streams to the storage engine. A batch is the sequence of the
\* names of its files.
FileError(batch, i) ==
    IF i > MaxCount THEN "LIMIT_UNEXPECTED_FILE"
    ELSE IF ~Accepted[batch[i]] THEN "FILTER"
    ELSE IF TooLarge[batch[i]] THEN "LIMIT_FILE_SIZE"
    ELSE "NONE"

\* The first file multer finds something wrong with, Len + 1 when none.
FirstBad(batch) ==
    LET bad == {i \in 1..Len(batch) : FileError(batch, i) # "NONE"}
    IN  IF bad = {} THEN Len(batch) + 1
        ELSE CHOOSE i \in bad : \A j \in bad : i <= j

\* upload.array("images", 10) on a batch. mediaFail is the file whose transfer
\* the Media Store fails (0: none); late says that this failure is reported
\* only after the rest of the batch was looked at; removeOk is the outcome
\* of the _removeFile calls multer makes when it aborts. The first error
\* raised is the one passed to next(); the files stored before it are
\* removed again. The result: err, the files handed to the route (each with
\* what the storage engine adds to it: path and filename, the latter being
\* the object's public_id; size is the stored size), and the objects left
\* in the Media Store.
Multer(batch, t, mediaFail, late, removeOk) ==
    LET n == Len(batch)
        p == FirstBad(batch)
        hit == mediaFail >= 1 /\ mediaFail < p
        first == hit /\ ~(late /\ p <= n)
        stop == IF hit /\ ~late THEN mediaFail ELSE p
        sent == {i \in 1..n : i < stop /\ ~(hit /\ i = mediaFail)}
        err == IF first THEN "MEDIA"
               ELSE IF p <= n THEN FileError(batch, p)
               ELSE "NONE"
        info(i) == [originalname |-> SampleFile[batch[i]].originalname,
                    mimetype |-> SampleFile[batch[i]].mimetype,
                    size |-> SampleFile[batch[i]].size,
                    path |-> UrlOf(ObjectName(t + i)),
                    filename |-> ObjectName(t + i)]
    IN  [err |-> err,
         files |-> IF err = "NONE" THEN [i \in 1..n |-> info(i)] ELSE <<>>,
         stored |-> IF err = "NONE" \/ ~removeOk
                    THEN {ObjectName(t + i) : i \in sent} ELSE {}]

\* The error handling middleware without its MulterError branch.
ErrorMiddlewareNoMulterBranch(err) ==
    [status |-> 500,
     body |-> CASE err = "FILTER" -> "Only image files are allowed!"
                [] err = "LIMIT_FILE_SIZE" -> "File too large"
                [] err = "LIMIT_UNEXPECTED_FILE" -> "Unexpected field"
                [] OTHER -> "Media Store error"]

\* error instanceof multer.MulterError
IsMulterError(err) == err \in {"LIMIT_FILE_SIZE", "LIMIT_UNEXPECTED_FILE"}

\* The error handling middleware: err is the code of a MulterError, or the
\* kind of a plain Error, whose message becomes the body.
ErrorMiddleware(err) ==
    IF IsMulterError(err) /\ err = "LIMIT_FILE_SIZE"
    THEN [status |-> 400, body |-> "File too large"]
    ELSE [status |-> 500,
          body |-> CASE err = "FILTER" -> "Only image files are allowed!"
                     [] err = "LIMIT_UNEXPECTED_FILE" -> "Unexpected field"
                     [] OTHER -> "Media Store error"]

\* A field of an object, undefined when the object has no such field.
Field(obj, name) == IF name \in DOMAIN obj THEN obj[name] ELSE Undefined

\* new Image({...}) of the upload route for one file of req.files; mongoose
\* gives the document its _id and, by default, its uploadDate.
NewImage(file, id, date) ==
    [id |-> id,
     filename |-> Field(file, "filename"),
     path |-> Field(file, "path"),
     public_id |-> Field(file, "public_id"),
     uploadDate |-> date]

\* The upload route on req.files: one save per file, awaited together;
\* saveFail are the files whose save the Metadata Store fails. The saves
\* that succeed stay.
UploadRoute(files, t, sameMs, saveFail) ==
    LET date(i) == IF sameMs THEN t + 1 ELSE t + i
        saved == {NewImage(files[i], ToString(t + i), date(i)) :
                     i \in (1..Len(files)) \ saveFail}
    IN  IF saveFail = {}
        THEN [status |-> 201, body |-> "Images uploaded successfully",
              saved |-> saved]
        ELSE [status |-> 500, body |-> "Failed to upload images",
              saved |-> saved]

---------------------------------------------------------------------------
\* The other routes.

\* Image.find().sort({ uploadDate: -1 }): the documents by descending
\* uploadDate; the order among equal dates is the store's choice.
RECURSIVE SortedByDateDesc(_)
SortedByDateDesc(docs) ==
    IF docs = {} THEN {<<>>}
    ELSE LET newest == {r \in docs : \A q \in docs : q.uploadDate <= r.uploadDate}
         IN  UNION {{<<r>> \o s : s \in SortedByDateDesc(docs \ {r})} :
                       r \in newest}

\* { ...image.toObject(), url: image.path }
WithUrl(r) ==
    [id |-> r.id, filename |-> r.filename, path |-> r.path,
     public_id |-> r.public_id, uploadDate |-> r.uploadDate, url |-> r.path]

\* The sequence s back to front.
Reverse(s) == [i \in 1..Len(s) |-> s[Len(s) + 1 - i]]

\* The find with the sort the other way round.
FindSortedAscending(docs) == {Reverse(s) : s \in SortedByDateDesc(docs)}

\* await Image.find().sort({ uploadDate: -1 }): the answers the store may
\* give.
FindSorted(docs) == SortedByDateDesc(docs)

\* GET /api/images with the find answering `found`.
ListRoute(found, dbOk) ==
    IF dbOk
    THEN [status |-> 200, body |-> [i \in 1..Len(found) |-> WithUrl(found[i])]]
    ELSE [status |-> 500, body |-> "Failed to fetch images"]

\* findById rejects: the id does not cast to an ObjectId, or the store fails.
FindByIdRejects(id, dbOk) == id \notin ObjectIds \/ ~dbOk

\* GET /api/download/:id
DownloadRoute(docs, id, dbOk) ==
    IF FindByIdRejects(id, dbOk)
    THEN [status |-> 500, body |-> "Failed to download image"]
    ELSE IF FindById(docs, id) = {}
    THEN [status |-> 404, body |-> "Image not found"]
    ELSE [status |-> 302,
          body |-> (CHOOSE r \in FindById(docs, id) : TRUE).path]

\* !x for a string or an absent value.
Falsy(x) == x = Undefined \/ x = <<>>

\* The deletion handle of the delete route: the stored public_id, else the
\* last segment of the path up to its first '.'.
PublicIdOf(image) ==
    IF Falsy(image.public_id) /\ ~Falsy(image.path)
    THEN FirstPiece(LastSegment(image.path))
    ELSE image.public_id

\* The delete route without the try/catch around the destroy: a failing
\* destroy reaches the outer catch.
DeleteRouteDestroyUncaught(docs, objs, id, publicId, destroyOk, dbOk) ==
    IF dbOk /\ (Falsy(publicId) \/ destroyOk)
    THEN [db |-> FindByIdAndDelete(docs, id),
          cloud |-> IF Falsy(publicId) THEN objs ELSE Destroy(objs, publicId, TRUE),
          status |-> 200, body |-> "Image deleted successfully"]
    ELSE [db |-> docs, cloud |-> objs,
          status |-> 500, body |-> "Failed to delete image"]

\* DELETE /api/images/:id from its await of the Media Store on, for a
\* request that derived the handle publicId: the destroy inside its own
\* try/catch, then findByIdAndDelete and the answer. A failing destroy is
\* logged and the route goes on; a failing findByIdAndDelete is the 500 of
\* the outer catch.
DeleteRoute(docs, objs, id, publicId, destroyOk, dbOk) ==
    LET left == IF Falsy(publicId) THEN objs
                ELSE Destroy(objs, publicId, destroyOk)
    IN  IF dbOk
        THEN [db |-> FindByIdAndDelete(docs, id), cloud |-> left,
              status |-> 200, body |-> "Image deleted successfully"]
        ELSE [db |-> docs, cloud |-> left,
              status |-> 500, body |-> "Failed to delete image"]

---------------------------------------------------------------------------
\* The API: one action per route. Each records the request and its response
\* in `last`, with what the request did to the two stores.

NoRequest == [op |-> "none"]

\* What the spec's upload policy says of a file: its extension and the
\* subtype of its declared MIME type, each a word of AllowedTypes or not.
OutsidePolicy(file) ==
    LET ext == ToLowerCase(ExtName(file.originalname))
        sub == SubSeq(file.mimetype, IndexOf(file.mimetype, "/") + 1,
                      Len(file.mimetype))
    IN  \/ ext = <<>>
        \/ SubSeq(ext, 2, Len(ext)) \notin AllowedTypes
        \/ sub \notin AllowedTypes

Outside == [k \in SampleNames |-> OutsidePolicy(SampleFile[k])]

\* What a batch is, as far as the upload claims go: the positions of its
\* files outside the policy and of its files over the size limit, and
\* where multer stops.
Profile(batch) ==
    [n |-> Len(batch),
     outside |-> {i \in 1..Len(batch) : Outside[batch[i]]},
     oversize |-> {i \in 1..Len(batch) : TooLarge[batch[i]]},
     firstBad |-> FirstBad(batch),
     firstError |-> IF FirstBad(batch) <= Len(batch)
                    THEN FileError(batch, FirstBad(batch)) ELSE "NONE"]

\* POST /api/upload
PostUpload ==
    \E n \in 0..MaxBatch :
      /\ clock + n <= MaxClock
      /\ \E batch \in [1..n -> SampleNames] :
         \E mediaFail \in 0..(FirstBad(batch) - 1) :
         \E late \in (IF mediaFail >= 1 /\ mediaFail < n THEN BOOLEAN
                      ELSE {FALSE}) :
           LET passed == FirstBad(batch) > n /\ mediaFail = 0
           IN  \E removeOk \in (IF passed THEN {TRUE} ELSE BOOLEAN) :
               \E sameMs \in (IF passed /\ n > 1 THEN BOOLEAN ELSE {TRUE}) :
               \E saveFail \in (IF passed THEN SUBSET (1..n) ELSE {{}}) :
                 LET m == Multer(batch, clock, mediaFail, late, removeOk)
                     r == IF m.err = "NONE"
                          THEN UploadRoute(m.files, clock, sameMs, saveFail)
                          ELSE ErrorMiddleware(m.err) @@ [saved |-> {}]
                 IN  /\ db' = db \cup r.saved
                     /\ cloud' = cloud \cup m.stored
                     /\ clock' = clock + n
                     /\ last' = [op |-> "upload", files |-> Profile(batch),
                                 status |-> r.status, body |-> r.body,
                                 created |-> {d.id : d \in db' \ db},
                                 stored |-> cloud' \ cloud,
                                 mediaFailed |-> m.err = "MEDIA",
                                 upstream |-> mediaFail >= 1 \/ saveFail # {}
                                              \/ (~removeOk /\ m.stored # {})]
                     /\ UNCHANGED <<inflight>>
                     /\ UNCHANGED clientVars

\* GET /api/images
GetImages ==
    \E dbOk \in BOOLEAN :
    \E found \in (IF dbOk THEN FindSorted(db) ELSE {<<>>}) :
      LET r == ListRoute(found, dbOk)
      IN  /\ last' = [op |-> "list", status |-> r.status, body |-> r.body,
                      upstream |-> ~dbOk]
          /\ UNCHANGED <<db, cloud, clock, inflight>>
          /\ UNCHANGED clientVars

\* GET /api/download/:id
GetDownload ==
    \E dbOk \in BOOLEAN :
    \E id \in (IF dbOk THEN RequestIds(db) ELSE {UnknownId}) :
      LET r == DownloadRoute(db, id, dbOk)
      IN  /\ last' = [op |-> "download", id |-> id, status |-> r.status,
                      body |-> r.body, upstream |-> ~dbOk]
          /\ UNCHANGED <<db, cloud, clock, inflight>>
          /\ UNCHANGED clientVars

\* DELETE /api/images/:id up to its await of the Media Store: findById, the
\* 404 and the deletion handle. A request that found its document waits in
\* `inflight` with the handle it derived.
DeleteLookup ==
    \E dbOk \in BOOLEAN :
    \E id \in (IF dbOk THEN RequestIds(db) ELSE {UnknownId}) :
      LET found == FindById(db, id)
      IN  /\ IF FindByIdRejects(id, dbOk)
             THEN /\ last' = [op |-> "delete", id |-> id, matched |-> FALSE,
                              status |-> 500, body |-> "Failed to delete image",
                              upstream |-> ~dbOk, destroyed |-> FALSE]
                  /\ UNCHANGED inflight
             ELSE IF found = {}
             THEN /\ last' = [op |-> "delete", id |-> id, matched |-> FALSE,
                              status |-> 404, body |-> "Image not found",
                              upstream |-> FALSE, destroyed |-> FALSE]
                  /\ UNCHANGED inflight
             ELSE /\ Cardinality(inflight) < MaxInflight
                  /\ inflight' = inflight \cup
                        {[id |-> id,
                          publicId |-> PublicIdOf(CHOOSE r \in found : TRUE)]}
                  /\ last' = [op |-> "deleteLookup", id |-> id]
          /\ UNCHANGED <<db, cloud, clock>>
          /\ UNCHANGED clientVars

\* The rest of DELETE /api/images/:id.
DeleteFinish ==
    \E req \in inflight :
    \E destroyOk \in (IF Falsy(req.publicId) THEN {TRUE} ELSE BOOLEAN) :
    \E dbOk \in BOOLEAN :
      LET r == DeleteRoute(db, cloud, req.id, req.publicId, destroyOk, dbOk)
      IN  /\ inflight' = inflight \ {req}
          /\ cloud' = r.cloud
          /\ db' = r.db
          /\ last' = [op |-> "delete", id |-> req.id, matched |-> TRUE,
                      status |-> r.status, body |-> r.body,
                      upstream |-> ~dbOk,
                      media |-> IF Falsy(req.publicId) THEN "skipped"
                                ELSE IF destroyOk THEN "answered" ELSE "failed",
                      destroyed |-> cloud' # cloud]
          /\ UNCHANGED clock
          /\ UNCHANGED clientVars

---------------------------------------------------------------------------
\* The Gallery Client. An image is held by its _id, the one field the
\* handlers read; null is the string "null". Each request in `net` carries
\* what its async function closed over, and goes from "sent" over the
\* server's handling to "answered", and then to the code after the await.
\* The server handles the client's requests with both stores working; the
\* error branches of the client are reached by the 4xx answers.

Null == "null"

\* Requests the user of one client session may trigger: clicks on Refresh
\* and on delete buttons, and selections of files.
MaxRequests == 2
\* Files the user may select at once.
MaxSelect == 1

\* The component without its early return: the gallery is drawn while loading.
GalleryRenderedWhileLoading == mounted

\* The early return of the component while isLoading: the spinner replaces
\* the header, the grid, the file input and the modal.
GalleryRendered == mounted /\ ~isLoading

Outstanding(kind) == {r \in net : r.kind = kind}

\* A name for a new request: the first one no request in flight has.
FreshRid ==
    CHOOSE n \in 1..(Cardinality(net) + 1) :
        /\ \A r \in net : r.rid # n
        /\ \A m \in 1..(n - 1) : \E r \in net : r.rid = m

\* fetchImages() up to its await.
FetchImages(origin, others) ==
    /\ isLoading' = TRUE
    /\ error' = Null
    /\ net' = others \cup {[rid |-> FreshRid, kind |-> "fetch",
                             origin |-> origin, stage |-> "sent"]}

\* useEffect(() => { fetchImages(); }, [])
Mount ==
    /\ ~mounted
    /\ mounted' = TRUE
    /\ FetchImages("mount", net)
    /\ last' = NoRequest
    /\ UNCHANGED <<images, selectedImage, isUploading, requests, uploadRefreshed>>
    /\ UNCHANGED <<db, cloud, clock, inflight>>
    /\ UNCHANGED anyFailed

\* The Refresh button: onClick={fetchImages}
ClickRefresh ==
    /\ GalleryRendered
    /\ requests < MaxRequests
    /\ requests' = requests + 1
    /\ FetchImages("refresh", net)
    /\ last' = NoRequest
    /\ UNCHANGED <<images, selectedImage, isUploading, mounted, uploadRefreshed>>
    /\ UNCHANGED <<db, cloud, clock, inflight>>
    /\ UNCHANGED anyFailed

\* file.type.startsWith("image/")
IsImageType(file) ==
    Len(file.mimetype) >= 6 /\
    SubSeq(file.mimetype, 1, 6) = <<"i", "m", "a", "g", "e", "/">>

\* The files handleFileUpload appends to the form.
FormFiles(files) == SelectSeq(files, LAMBDA k : IsImageType(SampleFile[k]))

\* handleFileUpload up to its await of the POST; the input is disabled
\* while isUploading.
SelectFiles ==
    /\ GalleryRendered
    /\ ~isUploading
    /\ requests < MaxRequests
    /\ \E n \in 1..MaxSelect :
       \E files \in [1..n -> SampleNames] :
         /\ clock + n <= MaxClock
         /\ net' = net \cup {[rid |-> FreshRid, kind |-> "upload",
                               batch |-> FormFiles(files), stage |-> "sent"]}
    /\ requests' = requests + 1
    /\ isUploading' = TRUE
    /\ error' = Null
    /\ last' = NoRequest
    /\ UNCHANGED <<images, selectedImage, isLoading, mounted, uploadRefreshed>>
    /\ UNCHANGED <<db, cloud, clock, inflight>>
    /\ UNCHANGED anyFailed

\* deleteImage(id) up to its await of the DELETE. The function belongs to
\* the render that drew the button, so the selectedImage it reads after
\* the await is the one of that render. The buttons of the grid stay in
\* the document under the modal.
ClickDelete ==
    /\ GalleryRendered
    /\ requests < MaxRequests
    /\ \E i \in 1..Len(images) :
         net' = net \cup {[rid |-> FreshRid, kind |-> "delete", id |-> images[i],
                           selectedImage |-> selectedImage, stage |-> "sent"]}
    /\ requests' = requests + 1
    /\ error' = Null
    /\ last' = NoRequest
    /\ UNCHANGED <<images, selectedImage, isLoading, isUploading, mounted,
                   uploadRefreshed>>
    /\ UNCHANGED <<db, cloud, clock, inflight>>
    /\ UNCHANGED anyFailed

\* openModal(image)
OpenModal ==
    /\ GalleryRendered
    /\ \E i \in 1..Len(images) :
         /\ selectedImage # images[i]
         /\ selectedImage' = images[i]
    /\ last' = NoRequest
    /\ UNCHANGED <<images, isLoading, isUploading, error, net, requests, mounted,
                   uploadRefreshed>>
    /\ UNCHANGED <<db, cloud, clock, inflight>>
    /\ UNCHANGED anyFailed

\* closeModal()
CloseModal ==
    /\ GalleryRendered
    /\ selectedImage # Null
    /\ selectedImage' = Null
    /\ last' = NoRequest
    /\ UNCHANGED <<images, isLoading, isUploading, error, net, requests, mounted,
                   uploadRefreshed>>
    /\ UNCHANGED <<db, cloud, clock, inflight>>
    /\ UNCHANGED anyFailed

\* The server handles a GET /api/images of the client.
ServeFetch ==
    \E r \in Outstanding("fetch") :
    \E found \in FindSorted(db) :
      LET a == ListRoute(found, TRUE)
      IN  /\ r.stage = "sent"
          /\ net' = (net \ {r}) \cup
                {[rid |-> r.rid, kind |-> "fetch", origin |-> r.origin,
                  stage |-> "answered", status |-> a.status,
                  data |-> IF a.status = 200
                           THEN [i \in 1..Len(a.body) |-> a.body[i].id]
                           ELSE <<>>]}
          /\ last' = NoRequest
          /\ UNCHANGED <<images, selectedImage, isLoading, isUploading, error,
                         requests, mounted, uploadRefreshed>>
          /\ UNCHANGED <<db, cloud, clock, inflight>>
          /\ UNCHANGED anyFailed

\* The server handles a POST /api/upload of the client.
ServeUpload ==
    \E r \in Outstanding("upload") :
      /\ r.stage = "sent"
      /\ LET m == Multer(r.batch, clock, 0, FALSE, TRUE)
             a == IF m.err = "NONE"
                  THEN UploadRoute(m.files, clock, FALSE, {})
                  ELSE ErrorMiddleware(m.err) @@ [saved |-> {}]
         IN    /\ db' = db \cup a.saved
               /\ cloud' = cloud \cup m.stored
               /\ clock' = clock + Len(r.batch)
               /\ net' = (net \ {r}) \cup
                     {[rid |-> r.rid, kind |-> "upload", stage |-> "answered",
                       status |-> a.status]}
      /\ last' = NoRequest
      /\ UNCHANGED <<images, selectedImage, isLoading, isUploading, error,
                     requests, mounted, uploadRefreshed, inflight>>
      /\ UNCHANGED anyFailed

\* The server handles a DELETE /api/images/:id of the client up to its
\* await of the Media Store.
ServeDeleteLookup ==
    \E r \in Outstanding("delete") :
      LET found == FindById(db, r.id)
          status == IF FindByIdRejects(r.id, TRUE) THEN 500
                    ELSE IF found = {} THEN 404 ELSE 0
      IN  /\ r.stage = "sent"
          /\ net' = (net \ {r}) \cup
                {IF status = 0
                 THEN [rid |-> r.rid, kind |-> "delete", id |-> r.id,
                       selectedImage |-> r.selectedImage, stage |-> "found",
                       publicId |-> PublicIdOf(CHOOSE d \in found : TRUE)]
                 ELSE [rid |-> r.rid, kind |-> "delete", id |-> r.id,
                       selectedImage |-> r.selectedImage, stage |-> "answered",
                       status |-> status]}
          /\ last' = NoRequest
          /\ UNCHANGED <<images, selectedImage, isLoading, isUploading, error,
                         requests, mounted, uploadRefreshed>>
          /\ UNCHANGED <<db, cloud, clock, inflight>>
          /\ UNCHANGED anyFailed

\* The server finishes a DELETE /api/images/:id of the client.
ServeDeleteFinish ==
    \E r \in Outstanding("delete") :
      /\ r.stage = "found"
      /\ LET a == DeleteRoute(db, cloud, r.id, r.publicId, TRUE, TRUE)
         IN  /\ db' = a.db
             /\ cloud' = a.cloud
             /\ net' = (net \ {r}) \cup
                   {[rid |-> r.rid, kind |-> "delete", id |-> r.id,
                     selectedImage |-> r.selectedImage, stage |-> "answered",
                     status |-> a.status]}
      /\ last' = NoRequest
      /\ UNCHANGED <<images, selectedImage, isLoading, isUploading, error,
                     requests, mounted, uploadRefreshed, clock, inflight>>
      /\ UNCHANGED anyFailed

\* response.ok
Ok(status) == status >= 200 /\ status <= 299

\* fetchImages() after its await: setImages(data) or the error, and
\* setIsLoading(false) in either case. When handleFileUpload awaited this
\* call, its finally block follows: setIsUploading(false).
FetchResponse ==
    \E r \in Outstanding("fetch") :
      /\ r.stage = "answered"
      /\ net' = net \ {r}
      /\ IF Ok(r.status)
         THEN images' = r.data /\ UNCHANGED error
         ELSE /\ error' = "Failed to load images. Make sure the backend server is running."
              /\ UNCHANGED images
      /\ isLoading' = FALSE
      /\ isUploading' = IF r.origin = "upload" THEN FALSE ELSE isUploading
      /\ uploadRefreshed' = (uploadRefreshed /\ Outstanding("fetch") # {r})
      /\ anyFailed' = (anyFailed \/ ~Ok(r.status))
      /\ last' = NoRequest
      /\ UNCHANGED <<selectedImage, requests, mounted>>
      /\ UNCHANGED <<db, cloud, clock, inflight>>

\* handleFileUpload after its await of the POST: `await fetchImages()`
\* when the response is ok, else the error and setIsUploading(false).
UploadResponse ==
    \E r \in Outstanding("upload") :
      /\ r.stage = "answered"
      /\ IF Ok(r.status)
         THEN /\ FetchImages("upload", net \ {r})
              /\ uploadRefreshed' = TRUE
              /\ UNCHANGED isUploading
         ELSE /\ net' = net \ {r}
              /\ error' = "Failed to upload images. Please try again."
              /\ isUploading' = FALSE
              /\ UNCHANGED <<isLoading, uploadRefreshed>>
      /\ anyFailed' = (anyFailed \/ ~Ok(r.status))
      /\ last' = NoRequest
      /\ UNCHANGED <<images, selectedImage, requests, mounted>>
      /\ UNCHANGED <<db, cloud, clock, inflight>>

\* The selectedImage that deleteImage reads after its await.
SelectedImageSeenBy(r) == r.selectedImage

\* deleteImage(id) after its await of the DELETE: the image leaves the
\* list, and the modal is closed if selectedImage is that image.
DeleteResponse ==
    \E r \in Outstanding("delete") :
      /\ r.stage = "answered"
      /\ net' = net \ {r}
      /\ IF Ok(r.status)
         THEN /\ images' = SelectSeq(images, LAMBDA x : x # r.id)
              /\ selectedImage' =
                    IF SelectedImageSeenBy(r) # Null /\ SelectedImageSeenBy(r) = r.id
                    THEN Null ELSE selectedImage
              /\ UNCHANGED error
         ELSE /\ error' = "Failed to delete image. Please try again."
              /\ UNCHANGED <<images, selectedImage>>
      /\ anyFailed' = (anyFailed \/ ~Ok(r.status))
      /\ last' = [op |-> "deleted", id |-> r.id, status |-> r.status]
      /\ UNCHANGED <<isLoading, isUploading, requests, mounted, uploadRefreshed>>
      /\ UNCHANGED <<db, cloud, clock, inflight>>

---------------------------------------------------------------------------
Init ==
    /\ db = LegacyDocs
    /\ cloud = LegacyObjects
    /\ clock = Cardinality(LegacyDocs)
    /\ inflight = {}
    /\ last = NoRequest
    /\ images = <<>>
    /\ selectedImage = Null
    /\ isLoading = TRUE
    /\ isUploading = FALSE
    /\ error = Null
    /\ net = {}
    /\ requests = 0
    /\ mounted = FALSE
    /\ uploadRefreshed = FALSE
    /\ anyFailed = FALSE

\* The API under requests of any kind, in any order.
Next ==
    \/ PostUpload
    \/ GetImages
    \/ GetDownload
    \/ DeleteLookup
    \/ DeleteFinish

Spec == Init /\ [][Next]_vars

\* One Gallery Client session against the API.
ClientNext ==
    \/ Mount
    \/ ClickRefresh
    \/ SelectFiles
    \/ ClickDelete
    \/ OpenModal
    \/ CloseModal
    \/ ServeFetch
    \/ ServeUpload
    \/ ServeDeleteLookup
    \/ ServeDeleteFinish
    \/ FetchResponse
    \/ UploadResponse
    \/ DeleteResponse

ClientSpec == Init /\ [][ClientNext]_vars

---------------------------------------------------------------------------
\* Properties of the API, each about the request in `last`.

\* The documents of the store with the given id.
Doc(id) == CHOOSE r \in db : r.id = id

\* C1: a DELETE /api/images/:id that found its document ends, whenever the
\* Metadata Store carries out the delete, with 200 and the document gone
\* from the store and from every answer GET /api/images can then give,
\* whether the Media Store destroy was answered, failed or was skipped.
C1_DeleteRemovesRecord ==
    (last.op = "delete" /\ last.matched /\ ~last.upstream) =>
        /\ last.media \in {"answered", "failed", "skipped"}
        /\ last.status = 200
        /\ FindById(db, last.id) = {}
        /\ \A found \in FindSorted(db) :
             \A i \in 1..Len(found) :
                ListRoute(found, TRUE).body[i].id # last.id

\* C1 witness: a delete whose Media Store destroy failed was answered 200.
C1_Witness ==
    /\ last.op = "delete" /\ last.matched /\ ~last.upstream
    /\ last.media = "failed"
    /\ last.status = 200

\* C2 as stated: a successful upload of N >= 1 files adds exactly N
\* documents, each with the URL of its own Media Store object as path and
\* with that object's public_id as a non-empty public_id.
C2_Claim ==
    (/\ last.op = "upload" /\ last.status = 201 /\ last.files.n >= 1
     /\ last.files.outside = {} /\ last.files.oversize = {}) =>
        /\ Cardinality(last.created) = last.files.n
        /\ \A id \in last.created :
             /\ Doc(id).filename \in cloud
             /\ Doc(id).path = UrlOf(Doc(id).filename)
             /\ ~Falsy(Doc(id).public_id)
             /\ Doc(id).public_id = Doc(id).filename

\* C3 as stated, for requests in which neither store fails: a batch with a
\* file outside the policy at any position is rejected, and leaves no new
\* document and no object of the batch in the Media Store.
C3_Claim ==
    (last.op = "upload" /\ last.files.outside # {} /\ ~last.upstream) =>
        /\ last.status >= 400
        /\ last.created = {}
        /\ last.stored = {}

\* C4 as stated, for requests in which neither store fails: an upload with
\* any file over the size limit is answered 400 'File too large' and
\* creates no document.
C4_Claim ==
    (last.op = "upload" /\ last.files.oversize # {} /\ ~last.upstream) =>
        /\ last.status = 400
        /\ last.body = "File too large"
        /\ last.created = {}

\* C4 amended: an upload with any file over the size limit creates no
\* document and is answered with an error; the answer is 400 'File too
\* large' when the size limit is the first error multer raises for the
\* batch, and no other upload is answered 400 or 'File too large'.
C4_Amended ==
    last.op = "upload" =>
        /\ last.files.oversize # {} => (last.created = {} /\ last.status >= 400)
        /\ (last.files.firstError = "LIMIT_FILE_SIZE" /\ ~last.mediaFailed)
              => (last.status = 400 /\ last.body = "File too large")
        /\ (last.status = 400 \/ last.body = "File too large")
              => (last.files.firstBad \in last.files.oversize
                  /\ ~last.mediaFailed)

\* C4 witness: the second file of a batch is over the limit, the first one
\* was stored, and the answer is 400 'File too large'.
C4_Witness ==
    /\ last.op = "upload"
    /\ last.files.oversize = {2}
    /\ last.files.firstBad = 2
    /\ last.status = 400
    /\ last.body = "File too large"
    /\ last.created = {}

\* C5 as stated: an upload is answered 500 only when a store failed; every
\* other error answer, a disallowed type included, is a 400.
C5_Claim ==
    (last.op = "upload" /\ last.status >= 400 /\ ~last.upstream) =>
        last.status = 400

\* C6 as stated: a DELETE for an id of no document is answered 404, issues
\* no Media Store deletion and leaves the Metadata Store as it was.
C6_Claim ==
    (last.op = "delete" /\ ~last.matched /\ ~last.upstream) =>
        /\ last.status = 404
        /\ ~last.destroyed

\* C7: GET /api/images, whenever the Metadata Store answers the find, is a
\* 200 whose body holds exactly the documents of the store, each once, by
\* descending uploadDate, each with url equal to its path; the body of an
\* empty store is the empty sequence.
C7_ListExactSortedWithUrl ==
    (last.op = "list" /\ ~last.upstream) =>
        LET b == last.body
        IN  /\ last.status = 200
            /\ Len(b) = Cardinality(db)
            /\ {b[i].id : i \in 1..Len(b)} = {r.id : r \in db}
            /\ \A i \in 1..Len(b) :
                  /\ b[i] = WithUrl(Doc(b[i].id))
                  /\ b[i].url = Doc(b[i].id).path
            /\ \A i, j \in 1..Len(b) :
                  i < j => b[i].uploadDate >= b[j].uploadDate
            /\ db = {} => b = <<>>

\* C7 witness: a list of three or more documents of different dates.
C7_Witness ==
    /\ last.op = "list" /\ last.status = 200
    /\ Len(last.body) >= 3
    /\ last.body[1].uploadDate > last.body[Len(last.body)].uploadDate

\* C8 as stated: GET /api/download/:id redirects to the path of the
\* document with that id, and answers 404 'Image not found' for every id
\* of no document.
C8_Claim ==
    (last.op = "download" /\ ~last.upstream) =>
        IF FindById(db, last.id) # {}
        THEN last.status = 302 /\ last.body = Doc(last.id).path
        ELSE last.status = 404 /\ last.body = "Image not found"

---------------------------------------------------------------------------
\* Properties of the Gallery Client.

\* C9 as stated: once deleteImage(id) has completed successfully, the
\* detail view is not showing the deleted image.
C9_Claim ==
    (last.op = "deleted" /\ Ok(last.status)) => selectedImage # last.id

\* C10 as stated: at most one fetch-all is outstanding at any time.
C10_Claim == Cardinality(Outstanding("fetch")) <= 1

\* C10 amended: at most one fetch-all is outstanding at any time, except
\* from the moment handleFileUpload issues its list refresh until no
\* fetch-all is outstanding any more.
C10_Amended == ~uploadRefreshed => Cardinality(Outstanding("fetch")) <= 1

\* C10 witness: a manual Refresh is outstanding while an upload's POST is
\* in flight, after the fetch of the mount has completed.
C10_Witness ==
    /\ ~uploadRefreshed
    /\ \E r \in Outstanding("fetch") : r.origin = "refresh"
    /\ Outstanding("upload") # {}

\* C11 as stated: whenever no request of the client is outstanding and
\* every request that completed succeeded, the images list holds no record
\* that is gone from the Metadata Store.
C11_Claim ==
    (mounted /\ net = {} /\ ~anyFailed) =>
        \A i \in 1..Len(images) : FindById(db, images[i]) # {}

====
